---- MODULE Spec2Model ----
(***************************************************************************)
(* A model of software.sslmate.com/src/ocsputil: the OCSP check pipeline   *)
(* ParseCertificate -> CreateRequest -> Query -> CheckResponse and its     *)
(* three drivers Evaluate, CheckRawCert and CheckCert.                     *)
(*                                                                         *)
(* Time is a discrete clock in seconds.  Strings that the code inspects    *)
(* character by character (the OCSP responder URIs) are sequences of       *)
(* one-character strings.  A Go value that can be nil is a record with an  *)
(* isNil field; a Go error is a record [kind, msg] whose msg is the list   *)
(* of the pieces its message is formatted from.                            *)
(***************************************************************************)
EXTENDS Integers, Sequences, FiniteSets, TLC

\* ------------------------------------------------------------------ bounds

\* Longest OCSPServer list of a certificate.
MaxURIs == 2

\* Latest time (seconds) at which the Query stage may start.
MaxStart == 1

\* Latest revocation timestamp a responder embeds (0 is Go's zero time.Time).
MaxRevokedAt == 1

\* The caller's context deadline, when it has one.
EarlyDeadline == 4

\* ------------------------------------------------------------- constants

\* lowlevel.go:57, in seconds.
QueryTimeout == 10

\* The clock stops here: late enough to see a Query outlive its timeout.
MaxTime == MaxStart + QueryTimeout + 2

Min(a, b) == IF a <= b THEN a ELSE b

Max(a, b) == IF a >= b THEN a ELSE b

Range(s) == {s[i] : i \in DOMAIN s}

\* ---------------------------------------------------------------- strings

HttpPrefix == <<"h", "t", "t", "p", ":", "/", "/">>

HttpA == HttpPrefix \o <<"a">>

\* Begins with http:// and is rejected by net/url (missing ']' in host).
HttpBad == HttpPrefix \o <<"[">>

HttpsA == <<"h", "t", "t", "p", "s", ":", "/", "/", "a">>

EmptyString == <<>>

URIs == {HttpA, HttpBad, HttpsA}

\* strings.HasPrefix
HasPrefix(s, prefix) ==
    /\ Len(s) >= Len(prefix)
    /\ SubSeq(s, 1, Len(prefix)) = prefix

\* All sequences over S of length at most n.
SeqUpTo(S, n) == UNION {[1..k -> S] : k \in 0..n}

\* ----------------------------------------------------------------- values

NilErr == [kind |-> "nil", msg |-> <<>>]

Error(kind, msg) == [kind |-> kind, msg |-> msg]

ErrUnknown == Error("ErrUnknown", <<"OCSP responder does not know this certificate">>)

ErrNoResponder == Error("ErrNoResponder", <<"Certificate does not contain an HTTP OCSP responder URL">>)

ErrNoCheck == Error("ErrNoCheck", <<"Certificate is an OCSP responder certificate with the OCSP No Check extension">>)

\* fmt.Errorf("<text>: %w", err)
Wrap(kind, text, err) == Error(kind, <<text>> \o err.msg)

\* []byte: nil, or a slice holding data.
NilBytes == [isNil |-> TRUE, data |-> <<>>]

Bytes(data) == [isNil |-> FALSE, data |-> data]

\* *string
NilString == [isNil |-> TRUE, val |-> EmptyString]

StringPtr(s) == [isNil |-> FALSE, val |-> s]

\* lowlevel.go:59
oidOCSPNoCheck == <<1, 3, 6, 1, 5, 5, 7, 48, 1, 5>>

\* The Authority Information Access extension, which lists the responders.
oidAuthorityInfoAccess == <<1, 3, 6, 1, 5, 5, 7, 1, 1>>

\* *x509.Certificate, as far as this package reads it: the responder URIs,
\* the extended key usages, the extensions' ids, and whether
\* RawSubjectPublicKeyInfo decodes.
NilCert == [isNil |-> TRUE, OCSPServer |-> <<>>, ExtKeyUsage |-> <<>>, Extensions |-> <<>>, spkiOK |-> FALSE]

Cert(servers, ekus, extensions) ==
    [isNil |-> FALSE, OCSPServer |-> servers, ExtKeyUsage |-> ekus,
     Extensions |-> extensions, spkiOK |-> TRUE]

\* The issuer certificate ParseCertificate builds (RawSubject,
\* RawSubjectPublicKeyInfo and PublicKey only).
IssuerStub(spkiOK) ==
    [isNil |-> FALSE, OCSPServer |-> <<>>, ExtKeyUsage |-> <<>>, Extensions |-> <<>>, spkiOK |-> spkiOK]

ExtKeyUsages == {<<"ServerAuth">>, <<"ServerAuth", "OCSPSigning">>}

ExtensionLists == {<<oidAuthorityInfoAccess>>, <<oidAuthorityInfoAccess, oidOCSPNoCheck>>}

Certs(n) ==
    {Cert(s, e, x) : s \in SeqUpTo(URIs, n), e \in ExtKeyUsages, x \in ExtensionLists}

\* Certificate bytes: malformed, or the DER encoding of a certificate.
MalformedCertData == [wellFormed |-> FALSE, cert |-> NilCert]

CertData(n) == {MalformedCertData} \cup {[wellFormed |-> TRUE, cert |-> c] : c \in Certs(n)}

\* Public key bytes: wellFormed iff x509.ParsePKIXPublicKey accepts them.
PubkeyBytes == {[wellFormed |-> b] : b \in BOOLEAN}

\* *Config
NilConfig == [isNil |-> TRUE, HTTPClient |-> "nil", UserAgent |-> ""]

Config(client, ua) == [isNil |-> FALSE, HTTPClient |-> client, UserAgent |-> ua]

Configs == {NilConfig, Config("nil", ""), Config("custom", "ocspwatch/1.0")}

\* ----------------------------------------------------------------- x509

\* ParseCertificate (lowlevel.go:97): the parsed certificate, the issuer stub
\* and the error.  The named results keep what was assigned before a return.
ParseCertificate(data, pubkeyBytes) ==
    IF ~data.wellFormed
    THEN [cert |-> NilCert, issuerCert |-> NilCert,
          err |-> Wrap("ParseCertificate", "unable to parse certificate", Error("x509", <<"malformed certificate">>))]
    ELSE IF ~pubkeyBytes.wellFormed
    THEN [cert |-> data.cert, issuerCert |-> NilCert,
          err |-> Wrap("ParseIssuerKey", "unable to parse issuer public key", Error("x509", <<"malformed public key">>))]
    ELSE [cert |-> data.cert, issuerCert |-> IssuerStub(TRUE), err |-> NilErr]

\* -------------------------------------------------------- request builder

\* The loop of getOCSPServer from index i on.
RECURSIVE ScanOCSPServer(_, _)
ScanOCSPServer(servers, i) ==
    IF i > Len(servers) THEN EmptyString
    ELSE IF HasPrefix(servers[i], HttpPrefix) THEN servers[i]
    ELSE ScanOCSPServer(servers, i + 1)

\* getOCSPServer testing for the prefix "http" only, which https:// has too.
RECURSIVE ScanAnyHTTP(_, _)
ScanAnyHTTP(servers, i) ==
    IF i > Len(servers) THEN EmptyString
    ELSE IF HasPrefix(servers[i], SubSeq(HttpPrefix, 1, 4)) THEN servers[i]
    ELSE ScanAnyHTTP(servers, i + 1)

getOCSPServerAnyHTTP(cert) == ScanAnyHTTP(cert.OCSPServer, 1)

getOCSPServer(cert) == ScanOCSPServer(cert.OCSPServer, 1)

isOCSPResponderCert(cert) ==
    \E i \in DOMAIN cert.ExtKeyUsage : cert.ExtKeyUsage[i] = "OCSPSigning"

hasOCSPNoCheck(cert) ==
    \E i \in DOMAIN cert.Extensions : cert.Extensions[i] = oidOCSPNoCheck

\* golang.org/x/crypto/ocsp.CreateRequest: it needs the issuer's
\* RawSubjectPublicKeyInfo to decode.
ocspCreateRequest(cert, issuerCert) ==
    IF issuerCert.spkiOK
    THEN [bytes |-> Bytes(<<"OCSPRequest">>), err |-> NilErr]
    ELSE [bytes |-> NilBytes, err |-> Error("asn1", <<"malformed issuer public key info">>)]

\* CreateRequest without its test for OCSP No Check.
CreateRequestWithoutNoCheck(cert, issuerCert) ==
    LET url == getOCSPServer(cert)
        req == ocspCreateRequest(cert, issuerCert)
    IN  IF url = EmptyString
        THEN [serverURL |-> url, requestBytes |-> NilBytes, err |-> ErrNoResponder]
        ELSE IF req.err # NilErr
        THEN [serverURL |-> url, requestBytes |-> req.bytes,
              err |-> Wrap("CreateRequest", "error creating OCSP request", req.err)]
        ELSE [serverURL |-> url, requestBytes |-> req.bytes, err |-> NilErr]

\* CreateRequest (lowlevel.go:127).
CreateRequest(cert, issuerCert) ==
    LET url == getOCSPServer(cert)
        req == ocspCreateRequest(cert, issuerCert)
    IN  IF url = EmptyString
        THEN [serverURL |-> url, requestBytes |-> NilBytes, err |-> ErrNoResponder]
        ELSE IF isOCSPResponderCert(cert) /\ hasOCSPNoCheck(cert)
        THEN [serverURL |-> url, requestBytes |-> NilBytes, err |-> ErrNoCheck]
        ELSE IF req.err # NilErr
        THEN [serverURL |-> url, requestBytes |-> req.bytes,
              err |-> Wrap("CreateRequest", "error creating OCSP request", req.err)]
        ELSE [serverURL |-> url, requestBytes |-> req.bytes, err |-> NilErr]

\* ------------------------------------------------------- response checker

\* What a responder can put in the body of its HTTP response.
Body(wellFormed, sigOK, status, revokedAt) ==
    [wellFormed |-> wellFormed, sigOK |-> sigOK, status |-> status, RevokedAt |-> revokedAt]

Bodies ==
    {Body(FALSE, FALSE, "good", 0), Body(TRUE, FALSE, "revoked", 1),
     Body(TRUE, TRUE, "good", 0), Body(TRUE, TRUE, "unknown", 0)}
    \cup {Body(TRUE, TRUE, "revoked", t) : t \in 0..MaxRevokedAt}

\* What io.ReadAll can return: an empty slice, or one response.
ResponseBodies == {Bytes(<<>>)} \cup {Bytes(<<b>>) : b \in Bodies}

\* golang.org/x/crypto/ocsp.ParseResponseForCert: the response must decode,
\* be for this certificate and carry a signature the issuer's key verifies.
ocspParseResponseForCert(responseBytes, cert, issuerCert) ==
    IF responseBytes.isNil \/ Len(responseBytes.data) = 0
    THEN [Status |-> "none", RevokedAt |-> 0, err |-> Error("asn1", <<"malformed response">>)]
    ELSE LET b == responseBytes.data[1]
         IN  IF ~b.wellFormed
             THEN [Status |-> "none", RevokedAt |-> 0, err |-> Error("asn1", <<"malformed response">>)]
             ELSE IF ~b.sigOK
             THEN [Status |-> "none", RevokedAt |-> 0, err |-> Error("ocsp", <<"bad signature">>)]
             ELSE [Status |-> b.status, RevokedAt |-> b.RevokedAt, err |-> NilErr]

\* CheckResponse forgetting to return the revocation time.
CheckResponseWithoutTime(cert, issuerCert, responseBytes) ==
    LET response == ocspParseResponseForCert(responseBytes, cert, issuerCert)
    IN  IF response.err # NilErr
        THEN [revoked |-> FALSE, revocationTime |-> 0,
              err |-> Wrap("ParseResponse", "error parsing OCSP response", response.err)]
        ELSE IF response.Status = "good"
        THEN [revoked |-> FALSE, revocationTime |-> 0, err |-> NilErr]
        ELSE IF response.Status = "revoked"
        THEN [revoked |-> TRUE, revocationTime |-> 0, err |-> NilErr]
        ELSE [revoked |-> FALSE, revocationTime |-> 0, err |-> ErrUnknown]

\* CheckResponse going on after the codec's error.
CheckResponseIgnoringParseError(cert, issuerCert, responseBytes) ==
    LET response == ocspParseResponseForCert(responseBytes, cert, issuerCert)
    IN  IF response.Status = "good"
        THEN [revoked |-> FALSE, revocationTime |-> 0, err |-> NilErr]
        ELSE IF response.Status = "revoked"
        THEN [revoked |-> TRUE, revocationTime |-> response.RevokedAt, err |-> NilErr]
        ELSE [revoked |-> FALSE, revocationTime |-> 0, err |-> ErrUnknown]

\* CheckResponse taking every status but revoked for good.
CheckResponseUnknownAsGood(cert, issuerCert, responseBytes) ==
    LET response == ocspParseResponseForCert(responseBytes, cert, issuerCert)
    IN  IF response.err # NilErr
        THEN [revoked |-> FALSE, revocationTime |-> 0,
              err |-> Wrap("ParseResponse", "error parsing OCSP response", response.err)]
        ELSE IF response.Status = "revoked"
        THEN [revoked |-> TRUE, revocationTime |-> response.RevokedAt, err |-> NilErr]
        ELSE [revoked |-> FALSE, revocationTime |-> 0, err |-> NilErr]

\* CheckResponse (lowlevel.go:198).
CheckResponse(cert, issuerCert, responseBytes) ==
    LET response == ocspParseResponseForCert(responseBytes, cert, issuerCert)
    IN  IF response.err # NilErr
        THEN [revoked |-> FALSE, revocationTime |-> 0,
              err |-> Wrap("ParseResponse", "error parsing OCSP response", response.err)]
        ELSE IF response.Status = "good"
        THEN [revoked |-> FALSE, revocationTime |-> 0, err |-> NilErr]
        ELSE IF response.Status = "revoked"
        THEN [revoked |-> TRUE, revocationTime |-> response.RevokedAt, err |-> NilErr]
        ELSE [revoked |-> FALSE, revocationTime |-> 0, err |-> ErrUnknown]

\* ------------------------------------------------------------------ state

VARIABLES
    entry,              \* the function the caller called
    certData,           \* its certData argument
    issuerPubkeyBytes,  \* its issuerPubkeyBytes argument
    config,             \* Evaluate's config argument
    httpClientArg,      \* CheckCert's and CheckRawCert's httpClient argument
    parentCtx,          \* the caller's context
    now,                \* the clock, in seconds
    pc,                 \* where the call stands
    stages,             \* the stages run so far, in order
    cert,               \* the parsed certificate
    issuerCert,         \* the issuer certificate
    created,            \* what CreateRequest returned
    queryCtx,           \* Query's context (context.WithTimeout)
    queryStart,         \* when Query was called
    queryEnd,           \* when Query returned
    httpRequest,        \* the request Query built
    sent,               \* the requests handed to the HTTP client
    httpResponse,       \* the response the HTTP client returned
    bodyOpen,           \* whether httpResponse.Body is open
    queried,            \* what Query returned
    timer,              \* the timer of queryCtx: "none", "armed" or "stopped"
    eval,               \* Evaluate's result
    ret                 \* CheckCert's and CheckRawCert's results

vars ==
    <<entry, certData, issuerPubkeyBytes, config, httpClientArg, parentCtx, now, pc,
      stages, cert, issuerCert, created, queryCtx, queryStart, queryEnd, httpRequest,
      sent, httpResponse, bodyOpen, queried, timer, eval, ret>>

inputs == <<entry, certData, issuerPubkeyBytes, config, httpClientArg>>

\* A context: its deadline, if it has one, and when it was cancelled, if it was.
Ctx(hasDeadline, deadline) ==
    [hasDeadline |-> hasDeadline, deadline |-> deadline, cancelled |-> FALSE, cancelledAt |-> 0]

Background == Ctx(FALSE, 0)

ParentCtxs == {Background, Ctx(TRUE, 0), Ctx(TRUE, EarlyDeadline)}

\* ctx.Err(): nil while the context is live.
CtxErr(ctx, t) ==
    IF ctx.cancelled THEN Error("ctx", <<"context canceled">>)
    ELSE IF ctx.hasDeadline /\ t >= ctx.deadline THEN Error("ctx", <<"context deadline exceeded">>)
    ELSE NilErr

CtxDone(ctx, t) == CtxErr(ctx, t) # NilErr

\* context.WithTimeout(parent, timeout) called at time t: the child is done
\* when the parent is, or at t + timeout.
WithTimeout(parent, t, timeout) ==
    [parent EXCEPT !.hasDeadline = TRUE,
                   !.deadline = IF parent.hasDeadline THEN Min(parent.deadline, t + timeout)
                                ELSE t + timeout]

NoCreated == [serverURL |-> EmptyString, requestBytes |-> NilBytes, err |-> NilErr]

NoRequest == [Method |-> "", URL |-> EmptyString, Header |-> <<>>, client |-> "nil"]

NoResponse == [StatusCode |-> 0, Status |-> "", ContentType |-> ""]

NoQueried == [bytes |-> NilBytes, err |-> NilErr]

\* The zero Evaluation.
ZeroEvaluation ==
    [ResponderURL |-> NilString, RequestBytes |-> NilBytes, ResponseBytes |-> NilBytes,
     ResponseTime |-> 0, Err |-> NilErr]

ZeroRet == [revoked |-> FALSE, revocationTime |-> 0, err |-> NilErr]

InitLocals ==
    /\ parentCtx \in ParentCtxs
    /\ now = 0
    /\ stages = <<>>
    /\ created = NoCreated
    /\ queryCtx = Background
    /\ queryStart = 0
    /\ queryEnd = 0
    /\ httpRequest = NoRequest
    /\ sent = <<>>
    /\ httpResponse = NoResponse
    /\ bodyOpen = FALSE
    /\ queried = NoQueried
    /\ timer = "none"
    /\ eval = ZeroEvaluation
    /\ ret = ZeroRet

InitEvaluate ==
    /\ entry = "Evaluate"
    /\ certData \in CertData(MaxURIs)
    /\ issuerPubkeyBytes \in PubkeyBytes
    /\ config \in Configs
    /\ httpClientArg = "nil"
    /\ cert = NilCert
    /\ issuerCert = NilCert
    /\ pc = "start"

InitCheckRawCert ==
    /\ entry = "CheckRawCert"
    /\ certData \in CertData(MaxURIs)
    /\ issuerPubkeyBytes \in PubkeyBytes
    /\ config = NilConfig
    /\ httpClientArg = "custom"
    /\ cert = NilCert
    /\ issuerCert = NilCert
    /\ pc = "start"

\* CheckCert takes parsed certificates; the caller may pass any issuer.
InitCheckCert ==
    /\ entry = "CheckCert"
    /\ certData = MalformedCertData
    /\ issuerPubkeyBytes = [wellFormed |-> FALSE]
    /\ config = NilConfig
    /\ httpClientArg = "custom"
    /\ cert \in Certs(MaxURIs)
    /\ issuerCert \in {IssuerStub(TRUE), IssuerStub(FALSE)}
    /\ pc = "parsed"

Init == InitLocals /\ (InitEvaluate \/ InitCheckRawCert \/ InitCheckCert)

\* Evaluate keeping the measured time before it looks at Query's error
\* (queryEnd = queryStart until Query has returned).
FailKeepingResponseTime(err) ==
    /\ pc' = "done"
    /\ IF entry = "Evaluate"
       THEN /\ eval' = [eval EXCEPT !.Err = err, !.ResponseTime = queryEnd - queryStart]
            /\ ret' = ret
       ELSE ret' = [ZeroRet EXCEPT !.err = err] /\ eval' = eval

\* A return of the called function with error err (Evaluate records it in
\* eval.Err; the others return it with the zero results).
Fail(err) ==
    /\ pc' = "done"
    /\ IF entry = "Evaluate"
       THEN eval' = [eval EXCEPT !.Err = err] /\ ret' = ret
       ELSE ret' = [ZeroRet EXCEPT !.err = err] /\ eval' = eval

\* ------------------------------------------------------------ the stages

ParseCertificateStep ==
    /\ pc = "start"
    /\ LET r == ParseCertificate(certData, issuerPubkeyBytes)
       IN  /\ stages' = Append(stages, "ParseCertificate")
           /\ cert' = r.cert
           /\ issuerCert' = r.issuerCert
           /\ IF r.err # NilErr
              THEN Fail(r.err)
              ELSE pc' = "parsed" /\ UNCHANGED <<eval, ret>>
    /\ UNCHANGED <<inputs, parentCtx, now, created, queryCtx, queryStart, queryEnd,
                   httpRequest, sent, httpResponse, bodyOpen, queried, timer>>

\* Evaluate forgetting to keep the request.
RecordRequestURLOnly(e, serverURL, requestBytes) ==
    [e EXCEPT !.ResponderURL = StringPtr(serverURL)]

\* Evaluate keeps the responder URL and the request as soon as it has them.
RecordRequest(e, serverURL, requestBytes) ==
    [e EXCEPT !.ResponderURL = StringPtr(serverURL), !.RequestBytes = requestBytes]

CreateRequestStep ==
    /\ pc = "parsed"
    /\ LET r == CreateRequest(cert, issuerCert)
       IN  /\ stages' = Append(stages, "CreateRequest")
           /\ created' = r
           /\ IF r.err # NilErr
              THEN Fail(r.err)
              ELSE /\ pc' = "requestBuilt"
                   /\ ret' = ret
                   /\ eval' = IF entry = "Evaluate"
                              THEN RecordRequest(eval, r.serverURL, r.requestBytes)
                              ELSE eval
    /\ UNCHANGED <<inputs, parentCtx, now, cert, issuerCert, queryCtx, queryStart, queryEnd,
                   httpRequest, sent, httpResponse, bodyOpen, queried, timer>>

\* ---------------------------------------------------------------- config

\* (*Config).httpClient
configHttpClient(c) ==
    IF ~c.isNil /\ c.HTTPClient # "nil" THEN c.HTTPClient ELSE "DefaultClient"

\* (*Config).userAgent
configUserAgent(c) == IF ~c.isNil THEN c.UserAgent ELSE ""

\* ------------------------------------------------------------- transport

\* net/url accepts the URL: a host that opens a bracket must close it.
URLParses(u) == ("[" \in Range(u)) => ("]" \in Range(u))

\* The header Query sets on its request: Content-Type, and the key
\* Idempotency-Key with no value.
QueryHeader ==
    [h \in {"Content-Type", "Idempotency-Key"} |->
        IF h = "Content-Type" THEN <<"application/ocsp-request">> ELSE <<>>]

QueryMethod == "POST"

\* Query running its request under the caller's context as it is.
QueryContextWithoutTimeout(parent, t) == parent

\* The context Query runs its request under.
QueryContext(parent, t) == WithTimeout(parent, t, QueryTimeout)

HTTPResponse(code, text, contentType) ==
    [StatusCode |-> code, Status |-> text, ContentType |-> contentType]

StatusLines ==
    {<<200, "200 OK">>, <<500, "500 Internal Server Error">>, <<503, "503 Service Unavailable">>}

ContentTypes == {"application/ocsp-response", "text/plain"}

HTTPResponses == {HTTPResponse(l[1], l[2], c) : l \in StatusLines, c \in ContentTypes}

\* Query returns result at the current time; its deferred cancel() runs.
QueryReturn(result) ==
    /\ queried' = result
    /\ queryEnd' = now
    /\ timer' = "stopped"
    /\ pc' = "queried"

\* Query, up to the call of httpClient.Do.  CheckCert passes its httpClient;
\* Evaluate (through timedQuery) passes its config, whose HTTP client is
\* config.httpClient().
QueryBegin ==
    /\ pc = "requestBuilt"
    /\ stages' = Append(stages, "Query")
    /\ queryStart' = now
    /\ queryCtx' = QueryContext(parentCtx, now)
    /\ IF ~URLParses(created.serverURL)
       THEN /\ QueryReturn([bytes |-> NilBytes,
                            err |-> Wrap("URL", "error with OCSP responder URL",
                                         Error("url", <<"missing ']' in host">>))])
            /\ UNCHANGED <<httpRequest, sent>>
       ELSE /\ httpRequest' =
                 [Method |-> QueryMethod, URL |-> created.serverURL, Header |-> QueryHeader,
                  client |-> IF entry = "Evaluate" THEN configHttpClient(config)
                             ELSE httpClientArg]
            /\ sent' = Append(sent, httpRequest')
            /\ timer' = "armed"
            /\ pc' = "do"
            /\ UNCHANGED <<queried, queryEnd>>
    /\ UNCHANGED <<inputs, parentCtx, now, cert, issuerCert, created, httpResponse,
                   bodyOpen, eval, ret>>

\* What can make the HTTP client give up: the network, or the request's
\* context once it is done.
Causes == {Error("net", <<"connection reset by peer">>)} \cup
          (IF CtxDone(queryCtx, now) THEN {CtxErr(queryCtx, now)} ELSE {})

\* httpClient.Do returns an error.
DoError ==
    /\ pc = "do"
    /\ \E cause \in Causes :
          QueryReturn([bytes |-> NilBytes,
                       err |-> Wrap("HTTPDo", "error querying OCSP responder over HTTP", cause)])
    /\ UNCHANGED <<inputs, parentCtx, now, stages, cert, issuerCert, created, queryCtx,
                   queryStart, httpRequest, sent, httpResponse, bodyOpen, eval, ret>>

\* httpClient.Do returns a response: the responder's status line and header
\* have arrived, which takes time.
DoResponse ==
    /\ pc = "do"
    /\ now > queryStart
    /\ \E r \in HTTPResponses : httpResponse' = r
    /\ bodyOpen' = TRUE
    /\ pc' = "read"
    /\ UNCHANGED <<inputs, parentCtx, now, stages, cert, issuerCert, created, queryCtx,
                   queryStart, queryEnd, httpRequest, sent, queried, timer, eval, ret>>

\* Query testing the Content-Type before the status.
QueryResultContentTypeFirst(response, body) ==
    IF response.ContentType # "application/ocsp-response"
    THEN [bytes |-> NilBytes,
          err |-> Error("ContentType", <<"HTTP response header has invalid Content-Type value ",
                                         response.ContentType>>)]
    ELSE IF response.StatusCode # 200
    THEN [bytes |-> NilBytes,
          err |-> Error("HTTPStatus", <<"HTTP error from OCSP responder: ", response.Status>>)]
    ELSE [bytes |-> body, err |-> NilErr]

\* The rest of Query once io.ReadAll returned body and the body is closed.
QueryResult(response, body) ==
    IF response.StatusCode # 200
    THEN [bytes |-> NilBytes,
          err |-> Error("HTTPStatus", <<"HTTP error from OCSP responder: ", response.Status>>)]
    ELSE IF response.ContentType # "application/ocsp-response"
    THEN [bytes |-> NilBytes,
          err |-> Error("ContentType", <<"HTTP response header has invalid Content-Type value ",
                                         response.ContentType>>)]
    ELSE [bytes |-> body, err |-> NilErr]

\* Query closing the body only after a read without error.
BodyOpenAfterReadUnlessError(readErr) == readErr # NilErr

\* Whether the body is open once io.ReadAll returned readErr:
\* httpResponse.Body.Close() runs before the error is looked at.
BodyOpenAfterRead(readErr) == FALSE

\* io.ReadAll returns the whole body.
ReadBody ==
    /\ pc = "read"
    /\ bodyOpen' = BodyOpenAfterRead(NilErr)
    /\ \E body \in ResponseBodies : QueryReturn(QueryResult(httpResponse, body))
    /\ UNCHANGED <<inputs, parentCtx, now, stages, cert, issuerCert, created, queryCtx,
                   queryStart, httpRequest, sent, httpResponse, eval, ret>>

\* io.ReadAll returns an error.
ReadError ==
    /\ pc = "read"
    /\ \E cause \in Causes :
          /\ bodyOpen' = BodyOpenAfterRead(cause)
          /\ QueryReturn([bytes |-> NilBytes,
                       err |-> Wrap("ReadBody", "error reading response from OCSP responder", cause)])
    /\ UNCHANGED <<inputs, parentCtx, now, stages, cert, issuerCert, created, queryCtx,
                   queryStart, httpRequest, sent, httpResponse, eval, ret>>

\* ------------------------------------------------------- after the query

\* Evaluate forgetting to keep the response.
RecordResponseTimeOnly(e, responseBytes, responseTime) ==
    [e EXCEPT !.ResponseTime = responseTime]

\* Evaluate keeps the response and the time timedQuery measured.
RecordResponse(e, responseBytes, responseTime) ==
    [e EXCEPT !.ResponseBytes = responseBytes, !.ResponseTime = responseTime]

\* The caller of Query goes on: Evaluate (through timedQuery) records the
\* response and its time and checks it; CheckCert returns CheckResponse's
\* results.
CheckResponseStep ==
    /\ pc = "queried"
    /\ IF queried.err # NilErr
       THEN Fail(queried.err) /\ stages' = stages
       ELSE LET r == CheckResponse(cert, issuerCert, queried.bytes)
            IN  /\ stages' = Append(stages, "CheckResponse")
                /\ pc' = "done"
                /\ IF entry = "Evaluate"
                   THEN /\ eval' = [RecordResponse(eval, queried.bytes, queryEnd - queryStart)
                                      EXCEPT !.Err = r.err]
                        /\ ret' = ret
                   ELSE ret' = r /\ eval' = eval
    /\ UNCHANGED <<inputs, parentCtx, now, cert, issuerCert, created, queryCtx, queryStart,
                   queryEnd, httpRequest, sent, httpResponse, bodyOpen, queried, timer>>

\* ------------------------------------------------------- the environment

InQuery == pc \in {"do", "read"}

\* A second passes.  While a request is in flight the HTTP client gives up
\* as soon as its context is done, so no time passes with a done context.
Tick ==
    /\ now < MaxTime
    /\ \/ pc \in {"start", "parsed", "requestBuilt"} /\ now < MaxStart
       \/ InQuery /\ ~CtxDone(queryCtx, now)
    /\ now' = now + 1
    /\ UNCHANGED <<inputs, parentCtx, pc, stages, cert, issuerCert, created, queryCtx,
                   queryStart, queryEnd, httpRequest, sent, httpResponse, bodyOpen, queried,
                   timer, eval, ret>>

Cancel(ctx) == [ctx EXCEPT !.cancelled = TRUE, !.cancelledAt = now]

\* The caller cancels its context; the cancellation reaches Query's context.
CancelParent ==
    /\ pc # "done"
    /\ ~parentCtx.cancelled
    /\ parentCtx' = Cancel(parentCtx)
    /\ queryCtx' = IF InQuery THEN Cancel(queryCtx) ELSE queryCtx
    /\ UNCHANGED <<inputs, now, pc, stages, cert, issuerCert, created, queryStart, queryEnd,
                   httpRequest, sent, httpResponse, bodyOpen, queried, timer, eval, ret>>

Next ==
    \/ ParseCertificateStep
    \/ CreateRequestStep
    \/ QueryBegin
    \/ DoError
    \/ DoResponse
    \/ ReadBody
    \/ ReadError
    \/ CheckResponseStep
    \/ Tick
    \/ CancelParent

Spec == Init /\ [][Next]_vars


\* ----------------------------------------------------------------- claims

Ran(stage) == stage \in Range(stages)

EvaluateReturned == pc = "done" /\ entry = "Evaluate"

CheckReturned == pc = "done" /\ entry \in {"CheckCert", "CheckRawCert"}

Populated(e) ==
    /\ ~e.ResponderURL.isNil
    /\ ~e.RequestBytes.isNil
    /\ ~e.ResponseBytes.isNil

\* The response bytes hold a response the codec validates.
Validated(bytes) ==
    /\ ~bytes.isNil
    /\ Len(bytes.data) > 0
    /\ bytes.data[1].wellFormed
    /\ bytes.data[1].sigOK

\* C1: whenever Evaluate returns an Evaluation whose Err is nil, its
\* ResponderURL, RequestBytes and ResponseBytes are all non-nil, and its
\* ResponseTime is the time the Query stage took.
C1_ErrNilImpliesPopulated ==
    (EvaluateReturned /\ eval.Err = NilErr) =>
        /\ Populated(eval)
        /\ Ran("Query")
        /\ eval.ResponseTime = queryEnd - queryStart

C1_Witness ==
    /\ EvaluateReturned
    /\ eval.Err = NilErr
    /\ eval.ResponseTime > 0

\* C2, as stated: Evaluate's Err is nil if and only if ResponderURL,
\* RequestBytes and ResponseBytes are all non-nil.
C2_Original == EvaluateReturned => (eval.Err = NilErr <=> Populated(eval))

\* C2, amended: Evaluate's Err is nil if and only if the three fields are
\* non-nil and the response is one the codec validates with status good or
\* revoked; the three fields are also non-nil, with Err non-nil, when
\* CheckResponse is the stage that failed.
C2_ErrNilIffPopulatedAndChecked ==
    EvaluateReturned =>
        /\ eval.Err = NilErr <=>
              /\ Populated(eval)
              /\ Validated(eval.ResponseBytes)
              /\ eval.ResponseBytes.data[1].status \in {"good", "revoked"}
        /\ (Populated(eval) /\ eval.Err # NilErr) =>
              /\ Ran("CheckResponse")
              /\ eval.Err.kind \in {"ParseResponse", "ErrUnknown"}

C2_Witness ==
    /\ EvaluateReturned
    /\ Populated(eval)
    /\ eval.Err = ErrUnknown

IsNoCheckResponderCert(c) ==
    /\ "OCSPSigning" \in Range(c.ExtKeyUsage)
    /\ oidOCSPNoCheck \in Range(c.Extensions)

\* The scheme of a URI: what stands before its first colon.
SchemeOf(u) ==
    LET colons == {i \in DOMAIN u : u[i] = ":"}
    IN  IF colons = {} THEN EmptyString
        ELSE SubSeq(u, 1, (CHOOSE i \in colons : \A j \in colons : i <= j) - 1)

HTTPEntries(c) ==
    {i \in DOMAIN c.OCSPServer : SchemeOf(c.OCSPServer[i]) = <<"h", "t", "t", "p">>}

\* C3, as stated: for an OCSP responder certificate with the OCSP No Check
\* extension, CreateRequest fails with ErrNoCheck whatever its responder URIs.
C3_Original ==
    (Ran("CreateRequest") /\ IsNoCheckResponderCert(cert)) => created.err = ErrNoCheck

\* C3, amended: for an OCSP responder certificate with the OCSP No Check
\* extension, CreateRequest fails with ErrNoCheck when the certificate lists
\* an http:// responder URI, and with ErrNoResponder when it lists none.
C3_NoCheckAfterResponder ==
    (Ran("CreateRequest") /\ IsNoCheckResponderCert(cert)) =>
        /\ created.requestBytes.isNil
        /\ created.err = IF HTTPEntries(cert) # {} THEN ErrNoCheck ELSE ErrNoResponder

C3_Witness ==
    /\ Ran("CreateRequest")
    /\ IsNoCheckResponderCert(cert)
    /\ HTTPEntries(cert) # {}
    /\ created.err = ErrNoCheck

\* C4: CreateRequest chooses the first responder URI, in list order, whose
\* scheme is http, never an https one; with no such URI it fails with
\* ErrNoResponder and returns no request bytes.
C4_FirstHTTPResponder ==
    Ran("CreateRequest") =>
        LET idx == HTTPEntries(cert)
        IN  IF idx = {}
            THEN /\ created.err = ErrNoResponder
                 /\ created.requestBytes.isNil
                 /\ created.serverURL = EmptyString
            ELSE /\ created.serverURL = cert.OCSPServer[CHOOSE i \in idx : \A j \in idx : i <= j]
                 /\ created.err # ErrNoResponder

C4_Witness ==
    /\ Ran("CreateRequest")
    /\ Len(cert.OCSPServer) = MaxURIs
    /\ cert.OCSPServer[1] = HttpsA
    /\ created.serverURL = cert.OCSPServer[MaxURIs]
    /\ created.err = NilErr

QueryReturned == Ran("Query") /\ pc \in {"queried", "done"}

\* The earliest of the caller's cancellation, the caller's deadline and
\* QueryTimeout after the call of Query, and no earlier than that call.
QueryLimit ==
    LET timeout == queryStart + QueryTimeout
        deadline == IF parentCtx.hasDeadline THEN Min(parentCtx.deadline, timeout) ELSE timeout
        cancelled == IF parentCtx.cancelled THEN Min(parentCtx.cancelledAt, deadline) ELSE deadline
    IN  Max(queryStart, cancelled)

ContextErrors == {"context canceled", "context deadline exceeded"}

\* C5: Query is never still running after the earliest of the caller's
\* cancellation, the caller's deadline and 10 seconds after its call: at that
\* time its context is done, it has returned by then, and a return caused by
\* the context is an error of the HTTP exchange (httpClient.Do or the read
\* of the body) without response bytes.
C5_QueryBounded ==
    /\ InQuery => now <= QueryLimit
    /\ (InQuery /\ now = QueryLimit) => CtxDone(queryCtx, now)
    /\ QueryReturned => queryEnd <= QueryLimit
    /\ (QueryReturned /\ Range(queried.err.msg) \cap ContextErrors # {}) =>
          /\ queried.err.kind \in {"HTTPDo", "ReadBody"}
          /\ queried.bytes.isNil

C5_Witness ==
    /\ QueryReturned
    /\ parentCtx = Background
    /\ httpResponse = NoResponse
    /\ queryEnd = queryStart + QueryTimeout
    /\ queried.err.kind = "HTTPDo"
    /\ "context deadline exceeded" \in Range(queried.err.msg)

\* Query received a response and read its body to the end.
ResponseRead ==
    /\ QueryReturned
    /\ httpResponse # NoResponse
    /\ queried.err.kind # "ReadBody"

\* C6, as stated: a response whose Content-Type is not
\* application/ocsp-response makes Query fail with the invalid-content-type
\* error whatever its status, and a response whose status is not 200 makes
\* Query fail with the HTTP-status error naming the status.
C6_Original ==
    ResponseRead =>
        /\ httpResponse.ContentType # "application/ocsp-response" =>
              queried.err.kind = "ContentType"
        /\ httpResponse.StatusCode # 200 =>
              /\ queried.err.kind = "HTTPStatus"
              /\ httpResponse.Status \in Range(queried.err.msg)

\* C6, amended: once the body is read, a response whose status is not 200
\* makes Query fail with the HTTP-status error naming the status, whatever
\* its Content-Type; a response with status 200 whose Content-Type is not
\* application/ocsp-response makes Query fail with the invalid-content-type
\* error naming the value; any other response is returned.
C6_StatusBeforeContentType ==
    ResponseRead =>
        IF httpResponse.StatusCode # 200
        THEN /\ queried.err.kind = "HTTPStatus"
             /\ httpResponse.Status \in Range(queried.err.msg)
             /\ queried.bytes.isNil
        ELSE IF httpResponse.ContentType # "application/ocsp-response"
        THEN /\ queried.err.kind = "ContentType"
             /\ httpResponse.ContentType \in Range(queried.err.msg)
             /\ queried.bytes.isNil
        ELSE /\ queried.err = NilErr
             /\ ~queried.bytes.isNil

C6_Witness ==
    /\ ResponseRead
    /\ httpResponse.StatusCode = 503
    /\ httpResponse.ContentType = "text/plain"
    /\ queried.err.kind = "HTTPStatus"

AllStages == <<"ParseCertificate", "CreateRequest", "Query", "CheckResponse">>

\* The errors each stage can fail with.
StageErrors(stage) ==
    IF stage = "ParseCertificate" THEN {"ParseCertificate", "ParseIssuerKey"}
    ELSE IF stage = "CreateRequest" THEN {"ErrNoResponder", "ErrNoCheck", "CreateRequest"}
    ELSE IF stage = "Query" THEN {"URL", "HTTPDo", "ReadBody", "HTTPStatus", "ContentType"}
    ELSE {"ParseResponse", "ErrUnknown"}

\* C7: Evaluate runs ParseCertificate, CreateRequest, Query and CheckResponse
\* in this order and stops at the first that fails: Err is that stage's
\* error, no request is handed to the HTTP client unless the Query stage
\* ran, ResponderURL and RequestBytes are CreateRequest's results from the
\* moment it succeeded and nil before, and ResponseBytes is nil when Query
\* failed (for a responder answering 500, with an Err naming the status).
C7_StagesInOrder ==
    entry = "Evaluate" =>
        LET n == Len(stages)
        IN  /\ n <= Len(AllStages)
            /\ stages = SubSeq(AllStages, 1, n)
            /\ Len(sent) <= 1
            /\ sent # <<>> => Ran("Query")
            /\ IF n >= 2 /\ created.err = NilErr
               THEN /\ eval.ResponderURL = StringPtr(created.serverURL)
                    /\ eval.RequestBytes = created.requestBytes
                    /\ ~eval.RequestBytes.isNil
               ELSE /\ eval.ResponderURL.isNil
                    /\ eval.RequestBytes.isNil
                    /\ n <= 2
            /\ (~certData.wellFormed \/ ~issuerPubkeyBytes.wellFormed) => n <= 1
            /\ pc = "done" =>
                  /\ eval.Err # NilErr => eval.Err.kind \in StageErrors(stages[n])
                  /\ eval.Err = NilErr => n = Len(AllStages)
                  /\ n = 3 => eval.Err = queried.err
                  /\ (n >= 3 /\ queried.err # NilErr) =>
                        /\ n = 3
                        /\ eval.ResponseBytes.isNil
                  /\ (ResponseRead /\ httpResponse.StatusCode = 500) =>
                        httpResponse.Status \in Range(eval.Err.msg)

C7_Witness ==
    /\ EvaluateReturned
    /\ ResponseRead
    /\ httpResponse.StatusCode = 500
    /\ eval.Err.kind = "HTTPStatus"
    /\ eval.ResponseBytes.isNil
    /\ ~eval.ResponderURL.isNil
    /\ ~eval.RequestBytes.isNil

\* C8, as stated: when CheckCert or CheckRawCert returns no error, revoked
\* is true if and only if the revocation time is not the zero time.
C8_Original ==
    (CheckReturned /\ ret.err = NilErr) =>
        /\ ret.revoked <=> ret.revocationTime # 0
        /\ ~ret.revoked => ret.revocationTime = 0

\* C8, amended: when CheckCert or CheckRawCert returns no error, revoked
\* false implies the zero revocation time (so a non-zero time implies
\* revoked), and revoked true implies that the revocation time is the
\* timestamp of the response, which a responder may set to the zero time.
C8_RevocationTime ==
    (CheckReturned /\ ret.err = NilErr) =>
        /\ ~ret.revoked => ret.revocationTime = 0
        /\ ret.revocationTime # 0 => ret.revoked
        /\ ret.revoked =>
              /\ Validated(queried.bytes)
              /\ queried.bytes.data[1].status = "revoked"
              /\ ret.revocationTime = queried.bytes.data[1].RevokedAt

C8_Witness ==
    /\ CheckReturned
    /\ ret.err = NilErr
    /\ ret.revoked
    /\ ret.revocationTime = 0

\* C9: for a response the codec validates, CheckResponse returns not revoked
\* and no error when its status is good, revoked with the response's
\* revocation timestamp and no error when it is revoked, and ErrUnknown
\* otherwise; for a response the codec rejects it returns the wrapped parse
\* error and not revoked.
C9_StatusMapping ==
    (CheckReturned /\ Ran("CheckResponse")) =>
        IF Validated(queried.bytes)
        THEN LET b == queried.bytes.data[1]
             IN  IF b.status = "good" THEN ret = [revoked |-> FALSE, revocationTime |-> 0, err |-> NilErr]
                 ELSE IF b.status = "revoked"
                 THEN ret = [revoked |-> TRUE, revocationTime |-> b.RevokedAt, err |-> NilErr]
                 ELSE ret.err = ErrUnknown /\ ~ret.revoked
        ELSE /\ ret.err.kind = "ParseResponse"
             /\ ret.err.msg[1] = "error parsing OCSP response"
             /\ Len(ret.err.msg) > 1
             /\ ~ret.revoked

C9_Witness ==
    /\ CheckReturned
    /\ Ran("CheckResponse")
    /\ ret.revoked
    /\ ret.revocationTime = MaxRevokedAt
    /\ ret.err = NilErr

\* C10: every request Query sends is a POST with Content-Type
\* application/ocsp-request, with the User-Agent of the Config when that is
\* not empty and with no User-Agent otherwise.
C10_RequestHeaders ==
    \A i \in DOMAIN sent :
        LET userAgent == IF entry = "Evaluate" THEN configUserAgent(config) ELSE ""
        IN  /\ sent[i].Method = "POST"
            /\ sent[i].Header["Content-Type"] = <<"application/ocsp-request">>
            /\ IF userAgent # ""
               THEN /\ "User-Agent" \in DOMAIN sent[i].Header
                    /\ sent[i].Header["User-Agent"] = <<userAgent>>
               ELSE "User-Agent" \notin DOMAIN sent[i].Header

\* C11: once Query has returned, the body of the response it received, if
\* any, is closed, whether the read of the body failed, the status was not
\* 200, the Content-Type was invalid or the response was returned; the body
\* is open only while Query reads it, and the timer of Query's context is
\* armed only while Query runs and stopped when it returns.
C11_BodyClosedTimerStopped ==
    /\ bodyOpen <=> pc = "read"
    /\ QueryReturned => (~bodyOpen /\ timer = "stopped")
    /\ timer = "armed" <=> InQuery
    /\ timer = "none" <=> ~Ran("Query")

C11_Witness ==
    /\ QueryReturned
    /\ httpResponse # NoResponse
    /\ queried.err.kind = "ReadBody"
    /\ ~bodyOpen
    /\ timer = "stopped"

\* C12: when the Query stage of Evaluate fails, the returned ResponseTime is
\* the zero duration, whatever time Query took; ResponseTime is not zero
\* only if Query succeeded, and it is then the time Query took, also when
\* CheckResponse fails.
C12_ResponseTimeOnlyOnSuccess ==
    EvaluateReturned =>
        /\ (Ran("Query") /\ queried.err # NilErr) => eval.ResponseTime = 0
        /\ eval.ResponseTime # 0 => (Ran("Query") /\ queried.err = NilErr)
        /\ (Ran("Query") /\ queried.err = NilErr) =>
              /\ eval.ResponseTime = queryEnd - queryStart
              /\ eval.ResponseTime # 0

C12_Witness ==
    /\ EvaluateReturned
    /\ Ran("Query")
    /\ queried.err # NilErr
    /\ queryEnd > queryStart
    /\ eval.ResponseTime = 0

====
